---- MODULE Spec2Model ----
(***************************************************************************)
(* Model of tools/patch_firefox_container_ast.mjs (the AST-based patcher,  *)
(* lines 1-504 of the source file), and of the text-based                  *)
(* patchContentIndex of the second copy in that file (lines 732-803).      *)
(*                                                                         *)
(* A source buffer is a sequence of tokens.  The three characters the      *)
(* text utilities look at (carriage return, line feed, space) are tokens   *)
(* of their own; every other token is a piece of source text that no edit  *)
(* of the program ever splits (a statement, a function header, a closing   *)
(* brace).  Offsets are 0-based, ranges half-open, as in the JavaScript.   *)
(***************************************************************************)
EXTENDS Integers, Sequences, FiniteSets, TLC

\* ------------------------------------------------------------------ bounds
MaxTextLen == 3
MaxEdits == 2
MaxRuns == 2
MaxIndent == 1

\* -------------------------------------------------------------- characters
CR == "CR"
LF == "LF"
SP == "SP"

Min(a, b) == IF a < b THEN a ELSE b
Max(a, b) == IF a > b THEN a ELSE b

\* String.prototype.slice(from, to) and slice(from) on 0-based offsets.
Slice(text, from, to) ==
  IF Min(from, Len(text)) >= Min(to, Len(text)) THEN <<>>
  ELSE SubSeq(text, from + 1, Min(to, Len(text)))
SliceFrom(text, from) == Slice(text, from, Len(text))

\* String.prototype.includes for a pattern of one or two tokens.
Includes(text, pat) ==
  \E k \in 0..(Len(text) - Len(pat)) : Slice(text, k, k + Len(pat)) = pat

\* String.prototype.lastIndexOf(pat, from): the largest offset k <= from at
\* which pat occurs, from clamped to 0..length; -1 when there is none.
LastIndexOf(text, pat, from) ==
  LET f == Min(Max(from, 0), Len(text) - Len(pat))
      hits == {k \in 0..f : Slice(text, k, k + Len(pat)) = pat}
  IN IF hits = {} THEN -1 ELSE CHOOSE k \in hits : \A j \in hits : j <= k

detectEol(text) == IF Includes(text, <<CR, LF>>) THEN <<CR, LF>> ELSE <<LF>>

getColumnAt(text, index, eol) ==
  LET nl == LastIndexOf(text, eol, index - 1)
  IN index - (IF nl < 0 THEN 0 ELSE nl + Len(eol))

Repeat(tok, n) == [i \in 1..n |-> tok]

RECURSIVE PadAfterLF(_, _)
PadAfterLF(text, pad) ==
  IF text = <<>> THEN <<>>
  ELSE IF Head(text) = LF THEN <<LF>> \o pad \o PadAfterLF(Tail(text), pad)
  ELSE <<Head(text)>> \o PadAfterLF(Tail(text), pad)

\* split('\n'), pad every line, join('\n').
indentLines(text, indent) ==
  LET pad == Repeat(SP, indent) IN pad \o PadAfterLF(text, pad)

\* replaceAll('\n', eol)
RECURSIVE toEol(_, _)
toEol(text, eol) ==
  IF text = <<>> THEN <<>>
  ELSE (IF Head(text) = LF THEN eol ELSE <<Head(text)>>) \o toEol(Tail(text), eol)

\* ---------------------------------------------------------------- applyEdits
\* Comparators of a sort: negative when a goes before b.  Ascending order.
EditCmpAscending(a, b) ==
  IF a.start # b.start THEN a.start - b.start ELSE a.end - b.end

\* Descending start, but equal starts by ascending end.
EditCmpTieAscending(a, b) ==
  IF b.start # a.start THEN b.start - a.start ELSE a.end - b.end

\* (a, b) => (b.start - a.start) || (b.end - a.end)
EditCmp(a, b) ==
  IF b.start # a.start THEN b.start - a.start ELSE b.end - a.end

\* Array.prototype.sort is stable: an element goes after every element already
\* placed that does not compare greater than it.
RECURSIVE InsertSorted(_, _)
InsertSorted(sorted, e) ==
  IF sorted = <<>> THEN <<e>>
  ELSE IF EditCmp(Head(sorted), e) <= 0
       THEN <<Head(sorted)>> \o InsertSorted(Tail(sorted), e)
       ELSE <<e>> \o sorted

RECURSIVE SortEdits(_)
SortEdits(edits) ==
  IF edits = <<>> THEN <<>>
  ELSE InsertSorted(SortEdits(SubSeq(edits, 1, Len(edits) - 1)), edits[Len(edits)])

\* A splice that puts the replacement in and leaves the range in place.
SpliceKeepRange(out, e) ==
  Slice(out, 0, e.start) \o e.replacement \o SliceFrom(out, e.start)

\* out.slice(0, e.start) + e.replacement + out.slice(e.end)
Splice(out, e) == Slice(out, 0, e.start) \o e.replacement \o SliceFrom(out, e.end)

RECURSIVE SpliceAll(_, _)
SpliceAll(out, sorted) ==
  IF sorted = <<>> THEN out ELSE SpliceAll(Splice(out, Head(sorted)), Tail(sorted))

applyEdits(text, edits) == SpliceAll(text, SortEdits(edits))

\* ------------------------------------------------------------------ parsing
\* What @babel/parser and @babel/generator do on the token vocabulary.  A
\* statement is its head token plus any continuation lines ("+" tokens, each
\* after a line break and indentation); the head decides the syntax tree.
Whitespace == {CR, LF, SP}
Cont == "+"
Closer == "}"
SyntaxErrorTok == "@syntaxerror"
Openers == {"method:GetInjected{", "method:Other{", "function:init{",
            "function:injectScripts{", "function:other{",
            "namespace:VMInjection{", "namespace:Other{", "interface:Info{",
            "interface:Other{", "gmi:{"}
NoFile == <<"@ENOENT">>

\* The syntax tree of a statement, as far as the rules look at it: node type,
\* declared names, Identifier names below it, whether a non-computed
\* browser.tabs member, a 'container' string literal or a `void e` occurs, the
\* test and consequent of an if, the test of a returned conditional.
Node(type, declares, idents, tabs, test, cons, strLit, voidE) ==
  [type |-> type, declares |-> declares, idents |-> idents, tabs |-> tabs,
   test |-> test, cons |-> cons, strLit |-> strLit, voidE |-> voidE]

Var(name, idents, tabs) ==
  Node("VariableDeclaration", {name}, idents \cup {name}, tabs, "", "", FALSE, FALSE)

Lex(tok) ==
  CASE tok \in {"container.cur", "container.cur~"} ->
         Var("container", {"IS_FIREFOX", "isApplied", "tab", "cookieStoreId",
                           "browser", "tabs", "get", "tabId", "catch"}, TRUE)
    [] tok = "container.v1" ->
         Var("container", {"IS_FIREFOX", "tab", "cookieStoreId"}, FALSE)
    [] tok = "container.v2" ->
         Var("container", {"IS_FIREFOX", "tab", "cookieStoreId", "browser",
                           "tabs", "get", "tabId"}, TRUE)
    [] tok = "container.v3" ->
         Var("container", {"IS_FIREFOX", "tab", "cookieStoreId", "browser",
                           "tabs", "get", "tabId", "catch"}, TRUE)
    [] tok \in {"injectInfo.cur", "injectInfo.cur~"} ->
         Var("injectInfo", {"inject", "info"}, FALSE)
    [] tok \in {"injectGmi.cur", "injectGmi.cur~"} ->
         Var("injectGmi", {"injectInfo", "gmi"}, FALSE)
    [] tok \in {"injectOut.cur", "injectOut.cur~"} ->
         Var("injectOut", {"IS_FIREFOX", "isApplied", "__proto__", "inject", "info",
                           "injectInfo", "gmi", "injectGmi", "container"}, FALSE)
    [] tok = "injectOut.v1" ->
         Var("injectOut", {"container", "__proto__", "inject", "info",
                           "injectInfo", "gmi", "injectGmi"}, FALSE)
    [] tok = "injectOut.v0" ->
         Var("injectOut", {"IS_FIREFOX", "inject", "info", "injectInfo", "gmi",
                           "cookieStoreId", "tab"}, FALSE)
    [] tok \in {"early.cur", "early.cur~"} ->
         Node("IfStatement", {}, {"isApplied", "done", "info", "__proto__", "gmi",
                                  "container"}, FALSE, "isApplied&&done",
              "ReturnStatement", FALSE, FALSE)
    [] tok = "early.v0" ->
         Node("IfStatement", {}, {"isApplied", "done"}, FALSE, "isApplied&&done",
              "ReturnStatement", FALSE, FALSE)
    [] tok = "early.block" ->
         Node("IfStatement", {}, {"isApplied", "done", "info", "__proto__", "gmi",
                                  "container"}, FALSE, "isApplied&&done",
              "BlockStatement", FALSE, FALSE)
    [] tok \in {"ret.inject", "ret.inject~"} ->
         Node("ReturnStatement", {}, {"isApplied", "inject"}, FALSE, "isApplied",
              "", FALSE, FALSE)
    [] tok \in {"ret.injectOut", "ret.injectOut~"} ->
         Node("ReturnStatement", {}, {"isApplied", "injectOut"}, FALSE, "isApplied",
              "", FALSE, FALSE)
    [] tok = "ret.plain" ->
         Node("ReturnStatement", {}, {"inject"}, FALSE, "", "", FALSE, FALSE)
    [] tok = "info=data.info" ->
         Node("VariableDeclaration", {"info"}, {"info", "data"}, FALSE, "data.info",
              "", FALSE, FALSE)
    [] tok = "info=other" ->
         Node("VariableDeclaration", {"info"}, {"info", "other"}, FALSE, "", "",
              FALSE, FALSE)
    [] tok \in {"ifc.cur", "ifc.cur~", "ifc.text"} ->
         Node("IfStatement", {}, {"IS_FIREFOX", "info", "gmi", "extra", "dataPromise",
                                  "extraGmi", "assign", "createNullObj", "e"}, FALSE,
              "IS_FIREFOX&&info&&...", "BlockStatement", TRUE, TRUE)
    [] tok = "ifc.v0" ->
         Node("IfStatement", {}, {"IS_FIREFOX", "info", "gmi", "extra", "dataPromise",
                                  "extraGmi", "assign", "createNullObj", "e"}, FALSE,
              "IS_FIREFOX&&info&&...", "BlockStatement", TRUE, FALSE)
    [] OTHER ->
         Node("ExpressionStatement", {}, {}, FALSE, "", "", FALSE, FALSE)

\* babel.parseSync throws on text that is not syntactically valid.
ParseThrows(code) == \E i \in 1..Len(code) : code[i] = SyntaxErrorTok

\* The 1-based index of the first token `head` in code[from..to], or 0.
FindTok(code, head, from, to) ==
  LET hits == {i \in from..to : code[i] = head}
  IN IF hits = {} THEN 0 ELSE CHOOSE i \in hits : \A j \in hits : i <= j

\* The index of the closing brace matching the opener at index `open`.
RECURSIVE CloseFrom(_, _, _)
CloseFrom(code, i, depth) ==
  IF i > Len(code) THEN Len(code) + 1
  ELSE IF code[i] \in Openers THEN CloseFrom(code, i + 1, depth + 1)
  ELSE IF code[i] = Closer
       THEN (IF depth = 0 THEN i ELSE CloseFrom(code, i + 1, depth - 1))
  ELSE CloseFrom(code, i + 1, depth)

MatchClose(code, open) == CloseFrom(code, open + 1, 0)

\* The last index of the statement whose head is at index i.
RECURSIVE StmtLast(_, _, _)
StmtLast(code, last, j) ==
  IF j > Len(code) THEN last
  ELSE IF code[j] \in Whitespace THEN StmtLast(code, last, j + 1)
  ELSE IF code[j] = Cont THEN StmtLast(code, j, j + 1)
  ELSE last

\* node.body.body of the block opened at `open`: the direct statements with
\* their ranges [start, end).
RECURSIVE StmtsFrom(_, _, _)
StmtsFrom(code, i, close) ==
  IF i >= close THEN <<>>
  ELSE IF code[i] \in Whitespace \cup {Cont} THEN StmtsFrom(code, i + 1, close)
  ELSE IF code[i] \in Openers THEN StmtsFrom(code, MatchClose(code, i) + 1, close)
  ELSE LET last == StmtLast(code, i, i + 1)
       IN <<[tok |-> code[i], start |-> i - 1, end |-> last]>>
            \o StmtsFrom(code, last + 1, close)

BodyStmts(code, open) == StmtsFrom(code, open + 1, MatchClose(code, open))

\* Array.prototype.find over statements: of the indices of the statements
\* that satisfy the predicate, the first, or 0.
FindIdx(hits) ==
  IF hits = {} THEN 0 ELSE CHOOSE i \in hits : \A j \in hits : i <= j

\* @babel/generator on a statement: the canonical text of its tree, "\n"
\* between the lines of a statement it prints on several lines.
Canon(tok) ==
  CASE tok = "container.cur~" -> "container.cur"
    [] tok = "injectInfo.cur~" -> "injectInfo.cur"
    [] tok = "injectGmi.cur~" -> "injectGmi.cur"
    [] tok = "injectOut.cur~" -> "injectOut.cur"
    [] tok = "early.cur~" -> "early.cur"
    [] tok = "ret.inject~" -> "ret.inject"
    [] tok = "ret.injectOut~" -> "ret.injectOut"
    [] tok = "ifc.cur~" -> "ifc.cur"
    [] tok = "ifc.text" -> "ifc.cur"
    [] tok = "{L}~" -> "{L}"
    [] OTHER -> tok

MultiLine == {"injectOut.cur", "early.cur", "ifc.cur"}

genNode(tok) ==
  IF Canon(tok) \in MultiLine THEN <<Canon(tok), LF, Cont>> ELSE <<Canon(tok)>>

\* ------------------------------------------------------- results of a rule
\* What one call of a rule did: how it ended ("ok", or the name of the error
\* it threw), the message of what it threw, the contents it handed to
\* fs.writeFile in order, the value it returned and the edits it applied.
\* A throw that loses the error's class.
ThrewPlain(name, msg) ==
  [kind |-> "Error", msg |-> msg, writes |-> <<>>, ret |-> FALSE, edits |-> <<>>]

\* throw new PatchError(msg), or any other throw: nothing was written.
Threw(name, msg) ==
  [kind |-> name, msg |-> msg, writes |-> <<>>, ret |-> FALSE, edits |-> <<>>]

Unchanged(edits) ==
  [kind |-> "ok", msg |-> "", writes |-> <<>>, ret |-> FALSE, edits |-> edits]

\* The file written twice; the file written and false returned.
WroteTwice(out, edits) ==
  [kind |-> "ok", msg |-> "", writes |-> <<out, out>>, ret |-> TRUE, edits |-> edits]

WroteNoReturn(out, edits) ==
  [kind |-> "ok", msg |-> "", writes |-> <<out>>, ret |-> FALSE, edits |-> edits]

\* await fs.writeFile(file, out, 'utf8'); return true;
Wrote(out, edits) ==
  [kind |-> "ok", msg |-> "", writes |-> <<out>>, ret |-> TRUE, edits |-> edits]

\* fs.readFile on a missing file, babel.parseSync on invalid text.
ReadThrows == Threw("Error", "ENOENT: no such file or directory")
ParseError == Threw("SyntaxError", "Unexpected token")

Edit(start, end, replacement) ==
  [start |-> start, end |-> end, replacement |-> replacement]

\* stmts.map(genNode).join('\n')
RECURSIVE JoinLF(_)
JoinLF(texts) ==
  IF texts = <<>> THEN <<>>
  ELSE IF Len(texts) = 1 THEN texts[1]
  ELSE texts[1] \o <<LF>> \o JoinLF(Tail(texts))

\* --------------------------------------------------- Rule A: patchPreinject
IsAppliedReturn(s) ==
  /\ Lex(s.tok).type = "ReturnStatement"
  /\ Lex(s.tok).test = "isApplied"

Declares(name, s) ==
  /\ Lex(s.tok).type = "VariableDeclaration"
  /\ name \in Lex(s.tok).declares

IsEarlyReturn(s) ==
  /\ Lex(s.tok).type = "IfStatement"
  /\ Lex(s.tok).test = "isApplied&&done"
  /\ Lex(s.tok).cons = "ReturnStatement"

FragmentNames == <<"container", "injectInfo", "injectGmi", "injectOut", "earlyReturn">>

desiredByName(name) ==
  CASE name = "container" -> "container.cur"
    [] name = "injectInfo" -> "injectInfo.cur"
    [] name = "injectGmi" -> "injectGmi.cur"
    [] name = "injectOut" -> "injectOut.cur"
    [] name = "earlyReturn" -> "early.cur"

\* The index in body of the statement found for a fragment, or 0.
FragmentIdx(body, name) ==
  IF name = "earlyReturn" THEN FindIdx({i \in 1..Len(body) : IsEarlyReturn(body[i])})
  ELSE FindIdx({i \in 1..Len(body) : Declares(name, body[i])})

stmtLooksOk(tok, name) ==
  CASE name = "container" ->
         /\ {"isApplied", "tabId", "cookieStoreId", "catch"} \subseteq Lex(tok).idents
         /\ Lex(tok).tabs
    [] name = "injectOut" -> {"injectGmi", "container"} \subseteq Lex(tok).idents
    [] name = "earlyReturn" -> {"done", "container"} \subseteq Lex(tok).idents
    [] OTHER -> TRUE

\* maybeReplaceStmt, called for the five fragments in order.
RECURSIVE ReplaceEdits(_, _, _)
ReplaceEdits(body, eol, names) ==
  IF names = <<>> THEN <<>>
  ELSE LET i == FragmentIdx(body, Head(names))
       IN (IF i # 0 /\ ~stmtLooksOk(body[i].tok, Head(names))
           THEN <<Edit(body[i].start, body[i].end,
                       toEol(genNode(desiredByName(Head(names))), eol))>>
           ELSE <<>>) \o ReplaceEdits(body, eol, Tail(names))

\* The desired statement of every fragment, found or not.
RECURSIVE insertStmtsAll(_, _)
insertStmtsAll(body, names) ==
  IF names = <<>> THEN <<>>
  ELSE <<genNode(desiredByName(Head(names)))>> \o insertStmtsAll(body, Tail(names))

\* insertStmts: the desired statement of every fragment that was not found.
RECURSIVE insertStmts(_, _)
insertStmts(body, names) ==
  IF names = <<>> THEN <<>>
  ELSE (IF FragmentIdx(body, Head(names)) = 0
        THEN <<genNode(desiredByName(Head(names)))>> ELSE <<>>)
         \o insertStmts(body, Tail(names))

InsertEdit(code, body, returnStmt, eol) ==
  LET stmts == insertStmts(body, FragmentNames)
      indent == getColumnAt(code, returnStmt.start, eol)
  IN IF stmts = <<>> THEN <<>>
     ELSE <<Edit(returnStmt.start, returnStmt.start,
                 toEol(indentLines(JoinLF(stmts), indent), eol) \o eol)>>

\* A walk that renames nothing.
replaceInNodeNothing(tok) == tok

\* replaceInNode: every Identifier inject below the node becomes injectOut.
replaceInNode(tok) ==
  CASE tok = "ret.inject" -> "ret.injectOut"
    [] tok = "ret.inject~" -> "ret.injectOut~"
    [] OTHER -> tok

ReturnEdit(returnStmt, eol) ==
  <<Edit(returnStmt.start, returnStmt.end,
         toEol(genNode(replaceInNode(returnStmt.tok)), eol))>>

PreinjectEdits(code, body, returnStmt, eol) ==
  ReplaceEdits(body, eol, FragmentNames)
    \o InsertEdit(code, body, returnStmt, eol)
    \o ReturnEdit(returnStmt, eol)

patchPreinject(code) ==
  IF code = NoFile THEN ReadThrows
  ELSE IF ParseThrows(code) THEN ParseError
  ELSE
    LET eol == detectEol(code)
        targetMethod == FindTok(code, "method:GetInjected{", 1, Len(code))
    IN IF targetMethod = 0
       THEN Threw("PatchError", "preinject.js: cannot find ObjectMethod GetInjected")
       ELSE
         LET body == BodyStmts(code, targetMethod)
             r == FindIdx({i \in 1..Len(body) : IsAppliedReturn(body[i])})
         IN IF r = 0
            THEN Threw("PatchError",
                       "preinject.js: cannot find return statement \"return isApplied ? ...\" in GetInjected")
            ELSE
              LET edits == PreinjectEdits(code, body, body[r], eol)
                  out == applyEdits(code, edits)
              IN IF out = code THEN Unchanged(edits) ELSE Wrote(out, edits)

\* ------------------------------------------------ Rule B: patchContentIndex
\* const info = data.info;
IsInfoStmt(s) ==
  /\ Lex(s.tok).type = "VariableDeclaration"
  /\ "info" \in Lex(s.tok).declares
  /\ Lex(s.tok).test = "data.info"

isOurIf(tok) == Lex(tok).type = "IfStatement" /\ Lex(tok).strLit

currentOk(tok) == Lex(tok).voidE

desiredIfAst == "ifc.cur"

patchContentIndex(code) ==
  IF code = NoFile THEN ReadThrows
  ELSE IF ParseThrows(code) THEN ParseError
  ELSE
    LET eol == detectEol(code)
        initFn == FindTok(code, "function:init{", 1, Len(code))
    IN IF initFn = 0
       THEN Threw("PatchError", "content/index.js: cannot find function init")
       ELSE
         LET bodyStmts == BodyStmts(code, initFn)
             idx == FindIdx({i \in 1..Len(bodyStmts) : IsInfoStmt(bodyStmts[i])})
         IN IF idx = 0
            THEN Threw("PatchError",
                       "content/index.js: cannot find statement \"const info = data.info;\"")
            ELSE IF idx + 1 <= Len(bodyStmts) /\ isOurIf(bodyStmts[idx + 1].tok)
            THEN
              LET next == bodyStmts[idx + 1]
                  edits == <<Edit(next.start, next.end, toEol(genNode(desiredIfAst), eol))>>
              IN IF currentOk(next.tok) THEN Unchanged(<<>>)
                 ELSE Wrote(applyEdits(code, edits), edits)
            ELSE
              LET infoStmt == bodyStmts[idx]
                  indent == getColumnAt(code, infoStmt.start, eol)
                  insertText == eol \o toEol(indentLines(genNode(desiredIfAst), indent), eol)
                                    \o eol
                  edits == <<Edit(infoStmt.end, infoStmt.end, insertText)>>
              IN Wrote(applyEdits(code, edits), edits)

\* ------------------------- Rule B as text: patchContentIndex, lines 732-803
\* This copy of the rule looks for its own snippet by its text, one line at a
\* time: "ifc.text" is the if statement in the layout of that snippet, with
\* `} catch (e) { void e; }` on one line.  The generator's layout ("ifc.cur")
\* and other layouts break that line.
HasTextMarkers(code) == \E i \in 1..Len(code) : code[i] = "ifc.text"

\* The first match of /\}\s*catch\s*\(e\)\s*\{\s*\}\s*\n\s*\}/ : the
\* empty catch at the end of the old statement, white space holding a line
\* feed, the closing brace.  Start and end offsets, start = -1 without one.
EmptyCatchMatch(code) ==
  LET ends(i) == {k \in (i + 1)..Len(code) :
                    /\ code[k] = Cont
                    /\ \A j \in (i + 1)..(k - 1) : code[j] \in Whitespace
                    /\ \E j \in (i + 1)..(k - 1) : code[j] = LF}
      hits == {i \in 1..Len(code) : code[i] = "ifc.v0" /\ ends(i) # {}}
  IN IF hits = {} THEN [start |-> -1, end |-> -1]
     ELSE LET i == CHOOSE h \in hits : \A j \in hits : h <= j
          IN [start |-> i - 1, end |-> CHOOSE k \in ends(i) : TRUE]

\* code.replace(regex, '} catch (e) { void e; }\n}') as the edit it makes.
UpgradeEdits(code) ==
  LET m == EmptyCatchMatch(code)
  IN IF m.start < 0 THEN <<>>
     ELSE <<Edit(m.start, m.end, <<"ifc.text", LF, Cont>>)>>

patchContentIndexText(code) ==
  IF code = NoFile THEN ReadThrows
  ELSE IF HasTextMarkers(code) THEN Unchanged(<<>>)
  ELSE
    LET eol == detectEol(code)
        upgraded == applyEdits(code, UpgradeEdits(code))
    IN IF upgraded # code THEN Wrote(upgraded, UpgradeEdits(code))
       ELSE IF ParseThrows(code) THEN ParseError
       ELSE
         LET initFn == FindTok(code, "function:init{", 1, Len(code))
         IN IF initFn = 0
            THEN Threw("PatchError", "content/index.js: cannot find function init")
            ELSE
              LET bodyStmts == BodyStmts(code, initFn)
                  idx == FindIdx({i \in 1..Len(bodyStmts) : IsInfoStmt(bodyStmts[i])})
              IN IF idx = 0
                 THEN Threw("PatchError",
                            "content/index.js: cannot find statement \"const info = data.info;\"")
                 ELSE
                   LET infoStmt == bodyStmts[idx]
                       indent == getColumnAt(code, infoStmt.start, eol)
                       snippet == <<"ifc.text", LF, Cont>>
                       insertText == eol \o toEol(indentLines(snippet, indent), eol)
                                         \o eol
                       edits == <<Edit(infoStmt.end, infoStmt.end, insertText)>>
                   IN Wrote(applyEdits(code, edits), edits)

\* ------------------------------------------------------ Rule C: patchInject
\* An assignment `info.gmi = <right>` is the token "info.gmi=" followed by the
\* token of its right-hand side.
AssignLeft == "info.gmi="
CurrentCall == "assign(info.gmi||createNullObj(),{L})"
ObjectLiterals == {"{L}", "{L}~"}
AssignCalls == {CurrentCall, "assign(info.gmi||createNullObj(),{L})~", "assign(src,{L})",
                "assign(createNullObj(),{L})"}

\* Whether the first argument of the assign(...) call is
\* `info.gmi || createNullObj()`.
FirstArgIsMerge(right) ==
  right \in {CurrentCall, "assign(info.gmi||createNullObj(),{L})~"}

\* The predicate handed to findFirst for the assignment.
IsTargetAssign(right) ==
  IF right \in AssignCalls THEN ~FirstArgIsMerge(right)
  ELSE right \in ObjectLiterals

\* The index of the first "info.gmi=" below the function whose right-hand
\* side satisfies the predicate, or 0.
FindAssign(code, fn) ==
  LET close == MatchClose(code, fn)
      hits == {i \in (fn + 1)..(close - 2) :
                 code[i] = AssignLeft /\ IsTargetAssign(code[i + 1])}
  IN IF hits = {} THEN 0 ELSE CHOOSE i \in hits : \A j \in hits : i <= j

\* A call that merges onto a fresh object only.
desiredExprAstFresh(right) ==
  [callee |-> "assign", first |-> "createNullObj()", second |-> right]

\* The expression of `assign(info.gmi || createNullObj(), {});` with the
\* original object literal put in as its second argument.
desiredExprAst(right) ==
  [callee |-> "assign", first |-> "info.gmi||createNullObj()", second |-> right]

\* genNode of a call expression: the generator prints the literal anew.
genExpr(ast) == ast.callee \o "(" \o ast.first \o "," \o Canon(ast.second) \o ")"

WrapInAssign(right) == <<genExpr(desiredExprAst(right))>>

\* The expression a right-hand side parses to.
ExprOf(tok) ==
  CASE tok \in {CurrentCall, "assign(info.gmi||createNullObj(),{L})~"} ->
         [callee |-> "assign", first |-> "info.gmi||createNullObj()", second |-> "{L}"]
    [] tok = "assign(src,{L})" ->
         [callee |-> "assign", first |-> "src", second |-> "{L}"]
    [] tok = "assign(createNullObj(),{L})" ->
         [callee |-> "assign", first |-> "createNullObj()", second |-> "{L}"]
    [] tok \in ObjectLiterals -> [callee |-> "", first |-> "", second |-> Canon(tok)]
    [] OTHER -> [callee |-> "", first |-> "", second |-> ""]

patchInject(code) ==
  IF code = NoFile THEN ReadThrows
  ELSE IF ParseThrows(code) THEN ParseError
  ELSE
    LET eol == detectEol(code)
        injectScriptsFn == FindTok(code, "function:injectScripts{", 1, Len(code))
    IN IF injectScriptsFn = 0
       THEN Threw("PatchError", "inject.js: cannot find function injectScripts")
       ELSE
         LET a == FindAssign(code, injectScriptsFn)
         IN IF a = 0
            THEN Threw("PatchError",
                       "inject.js: cannot find assignment \"info.gmi = { ... }\" in injectScripts")
            ELSE IF code[a + 1] \in AssignCalls THEN Unchanged(<<>>)
            ELSE
              LET edits == <<Edit(a, a + 1, toEol(WrapInAssign(code[a + 1]), eol))>>
              IN Wrote(applyEdits(code, edits), edits)

\* ------------------------------------------------------- Rule D: patchTypes
\* The key of a TSPropertySignature member, "" for any other member.
MemberName(tok) ==
  CASE tok = "isIncognito:boolean;" -> "isIncognito"
    [] tok \in {"container?:string;", "container:string;"} -> "container"
    [] tok = "other:string;" -> "other"
    [] OTHER -> ""

\* The index in members of the last one named isIncognito, or 0.
LastIncognito(members) ==
  LET hits == {i \in 1..Len(members) : MemberName(members[i].tok) = "isIncognito"}
  IN IF hits = {} THEN 0 ELSE CHOOSE i \in hits : \A j \in hits : j <= i

\* A loop that never meets a member named container.
HasContainerMemberNever(members) == FALSE

HasContainerMember(members) ==
  \E i \in 1..Len(members) : MemberName(members[i].tok) = "container"

patchTypes(code) ==
  IF code = NoFile THEN ReadThrows
  ELSE IF ParseThrows(code) THEN ParseError
  ELSE
    LET eol == detectEol(code)
        vmInjNs == FindTok(code, "namespace:VMInjection{", 1, Len(code))
    IN IF vmInjNs = 0
       THEN Threw("PatchError", "types.d.ts: cannot find namespace VMInjection")
       ELSE
         LET infoIface == FindTok(code, "interface:Info{", vmInjNs + 1,
                                  MatchClose(code, vmInjNs) - 1)
         IN IF infoIface = 0
            THEN Threw("PatchError", "types.d.ts: cannot find interface VMInjection.Info")
            ELSE
              LET gmiProp == FindTok(code, "gmi:{", infoIface + 1,
                                     MatchClose(code, infoIface) - 1)
              IN IF gmiProp = 0
                 THEN Threw("PatchError", "types.d.ts: cannot find VMInjection.Info.gmi")
                 ELSE
                   LET members == BodyStmts(code, gmiProp)
                       k == LastIncognito(members)
                   IN IF HasContainerMember(members) THEN Unchanged(<<>>)
                      ELSE IF k = 0
                      THEN Threw("PatchError",
                                 "types.d.ts: cannot find VMInjection.Info.gmi.isIncognito property")
                      ELSE
                        LET indent == getColumnAt(code, members[k].start, eol)
                            insertion == eol \o Repeat(SP, indent)
                                             \o <<"container?:string;">>
                            edits == <<Edit(members[k].end, members[k].end, insertion)>>
                        IN Wrote(applyEdits(code, edits), edits)

\* ------------------------------------------------------ the target files
PREINJECT == "src/background/utils/preinject.js"
INDEX == "src/injected/content/index.js"
INJECT == "src/injected/content/inject.js"
TYPES == "src/types.d.ts"
FileNames == {PREINJECT, INDEX, INJECT, TYPES}
RuleOrder == <<PREINJECT, INDEX, INJECT, TYPES>>

Eols == {<<LF>>, <<CR, LF>>}

RECURSIVE Lines(_, _, _)
Lines(stmts, indent, eol) ==
  IF stmts = <<>> THEN <<>>
  ELSE toEol(indentLines(Head(stmts), indent), eol) \o eol
         \o Lines(Tail(stmts), indent, eol)

\* A file holding one block: a first line, the block's header, its statements
\* one to a line at the given indentation, the closing brace.
Block(head, stmts, indent, eol) ==
  <<"prologue">> \o eol \o <<head>> \o eol \o Lines(stmts, indent, eol)
    \o <<Closer>> \o eol

\* types.d.ts: namespace { interface { gmi: { members } } }
TypesFile(ns, iface, gmi, members, indent, eol) ==
  <<ns>> \o eol \o <<iface>> \o eol
    \o (IF gmi \in Openers
        THEN <<gmi>> \o eol \o Lines(members, indent, eol) \o <<Closer>> \o eol
        ELSE <<gmi>> \o eol)
    \o <<Closer>> \o eol \o <<Closer>> \o eol

\* The source forms of the statements: a statement the source spreads over
\* two lines is its head, a line break and a continuation.
Two(tok) == <<tok, LF, Cont>>
One(tok) == <<tok>>

\* Bodies of GetInjected, one per state an upstream checkout or an earlier run
\* of the tool can leave it in.
PreinjectBodies ==
  { <<One("stmt.x"), Two("ret.inject~")>>,
    <<One("stmt.x"), One("ret.inject")>>,
    <<One("container.v1"), One("injectInfo.cur~"), One("injectGmi.cur~"),
      Two("injectOut.v1"), One("ret.injectOut~")>>,
    <<One("container.cur"), One("injectInfo.cur"), One("injectGmi.cur"),
      Two("injectOut.cur"), Two("early.cur"), One("ret.injectOut")>>,
    <<One("container.cur~"), One("injectInfo.cur~"), One("injectGmi.cur~"),
      Two("injectOut.cur~"), One("early.cur~"), Two("ret.injectOut~")>>,
    <<One("stmt.x"), One("ret.plain")>> }

PreinjectFiles(indent, eol) ==
  {Block("method:GetInjected{", b, indent, eol) : b \in PreinjectBodies}
    \cup {Block("method:Other{", <<One("stmt.x"), One("ret.inject")>>, indent, eol),
          NoFile}

IndexBodies ==
  { <<One("info=data.info"), One("stmt.x")>>,
    <<One("info=data.info"), Two("ifc.v0"), One("stmt.x")>>,
    <<One("info=data.info"), Two("ifc.cur"), One("stmt.x")>>,
    <<One("info=data.info"), Two("ifc.cur~")>>,
    <<One("info=other"), One("stmt.x")>> }

IndexFiles(indent, eol) ==
  {Block("function:init{", b, indent, eol) : b \in IndexBodies}
    \cup {Block("function:other{", <<One("info=data.info")>>, indent, eol),
          Block("function:init{", <<One("info=data.info"), One(SyntaxErrorTok)>>,
                indent, eol)}

Assign(right) == <<AssignLeft, right, ";">>

InjectBodies ==
  { <<Assign("{L}")>>,
    <<Assign("{L}~"), One("stmt.x")>>,
    <<Assign(CurrentCall)>>,
    <<Assign("assign(src,{L})")>>,
    <<Assign("value")>>,
    <<One("stmt.x")>> }

InjectFiles(indent, eol) ==
  {Block("function:injectScripts{", b, indent, eol) : b \in InjectBodies}
    \cup {Block("function:other{", <<Assign("{L}")>>, indent, eol)}

TypesMembers ==
  { <<One("isIncognito:boolean;"), One("other:string;")>>,
    <<One("isIncognito:boolean;"), One("container?:string;")>>,
    <<One("container:string;"), One("other:string;")>>,
    <<One("other:string;")>> }

TypesFiles(indent, eol) ==
  {TypesFile("namespace:VMInjection{", "interface:Info{", "gmi:{", m, indent, eol) :
     m \in TypesMembers}
    \cup {TypesFile("namespace:Other{", "interface:Info{", "gmi:{",
                    <<One("isIncognito:boolean;")>>, indent, eol),
          TypesFile("namespace:VMInjection{", "interface:Other{", "gmi:{",
                    <<One("isIncognito:boolean;")>>, indent, eol),
          TypesFile("namespace:VMInjection{", "interface:Info{", "gmi:Type;",
                    <<>>, indent, eol)}

\* ------------------------------------------------------------------- state
VARIABLES
  files,      \* the content of each target file on disk
  babel,      \* whether the checkout has @babel/core and @babel/generator
  pc,         \* where the process is: start, a rule's file, report, catch, exit
  run,        \* which invocation of the tool this is
  changed,    \* main's list `changed`
  reads,      \* the files read by fs.readFile in this invocation, in order
  writes,     \* the calls of fs.writeFile in this invocation: file and content
  stdout,     \* the lines printed by console.log
  thrown,     \* the error that reached the top-level catch: its name and message
  exitCode,   \* the process's exit code, -1 while it runs
  before,     \* the content of the files when this invocation started
  prev,       \* the invocation before this one: exit code, files before and after
  last        \* what the rule that ran last did

orchVars == <<files, babel, pc, run, changed, reads, writes, stdout, thrown,
              exitCode, before, prev, last>>

VARIABLES
  edText,     \* applyEdits: its argument text
  edEdits,    \* applyEdits: its argument edits
  edSorted,   \* applyEdits: the sorted copy
  edIdx,      \* applyEdits: how many edits of the sorted copy are applied
  edOut,      \* applyEdits: the working buffer
  edPc        \* applyEdits: sort, loop, done

edVars == <<edText, edEdits, edSorted, edIdx, edOut, edPc>>

VARIABLE cv   \* one rule run on two files that differ in one fragment

VARIABLES
  fg,         \* patchPreinject run on a GetInjected of given fragment states
  mg,         \* patchInject, then the rewritten assignment evaluated
  col,        \* getColumnAt: a text, an offset, the value returned
  tx          \* the text-based patchContentIndex run on one file

auxVars == <<fg, mg, col, tx>>

vars == <<orchVars, edVars, cv, auxVars>>

NoError == [name |-> "", message |-> ""]
NoPrev == [exitCode |-> -1, before |-> <<>>, files |-> <<>>]
NoRule == Unchanged(<<>>)

\* ----------------------------------------------------------- orchestrator
\* loadBabel: createRequire, then require of @babel/core and @babel/generator,
\* which throws when the checkout has not installed them.
LoadBabel ==
  /\ pc = "start"
  /\ IF babel
     THEN pc' = PREINJECT /\ thrown' = thrown
     ELSE /\ pc' = "catch"
          /\ thrown' = [name |-> "Error", message |-> "Cannot find module '@babel/core'"]
  /\ UNCHANGED <<files, babel, run, changed, reads, writes, stdout, exitCode,
                 before, prev, last, edVars, cv, auxVars>>

RECURSIVE WriteCalls(_, _)
WriteCalls(file, contents) ==
  IF contents = <<>> THEN <<>>
  ELSE << [file |-> file, content |-> Head(contents)] >>
         \o WriteCalls(file, Tail(contents))

\* A main that catches what a rule throws and goes on with the next rule.
CallRuleSwallow(file, r, nextPc) ==
  /\ pc = file
  /\ reads' = Append(reads, file)
  /\ last' = r
  /\ files' = IF r.writes # <<>>
              THEN [files EXCEPT ![file] = r.writes[Len(r.writes)]] ELSE files
  /\ writes' = writes \o WriteCalls(file, r.writes)
  /\ changed' = IF r.kind = "ok" /\ r.ret THEN Append(changed, file) ELSE changed
  /\ pc' = nextPc
  /\ thrown' = IF r.kind = "ok" THEN thrown ELSE [name |-> r.kind, message |-> r.msg]
  /\ UNCHANGED <<babel, run, stdout, exitCode, before, prev, edVars, cv, auxVars>>

\* `if (await rule(...)) changed.push(path)`: the call of one rule from main.
CallRule(file, r, nextPc) ==
  /\ pc = file
  /\ reads' = Append(reads, file)
  /\ last' = r
  /\ files' = IF r.writes # <<>>
              THEN [files EXCEPT ![file] = r.writes[Len(r.writes)]] ELSE files
  /\ writes' = writes \o WriteCalls(file, r.writes)
  /\ IF r.kind = "ok"
     THEN /\ changed' = IF r.ret THEN Append(changed, file) ELSE changed
          /\ pc' = nextPc
          /\ thrown' = thrown
     ELSE /\ changed' = changed
          /\ pc' = "catch"
          /\ thrown' = [name |-> r.kind, message |-> r.msg]
  /\ UNCHANGED <<babel, run, stdout, exitCode, before, prev, edVars, cv, auxVars>>

RunPreinject == CallRule(PREINJECT, patchPreinject(files[PREINJECT]), INDEX)

RunContentIndex == CallRule(INDEX, patchContentIndex(files[INDEX]), INJECT)

RunInject == CallRule(INJECT, patchInject(files[INJECT]), TYPES)

RunTypes == CallRule(TYPES, patchTypes(files[TYPES]), "report")

RECURSIVE Bullets(_)
Bullets(paths) ==
  IF paths = <<>> THEN <<>> ELSE <<"- " \o Head(paths)>> \o Bullets(Tail(paths))

PrintReport(list) ==
  IF Len(list) > 0 THEN <<"Patched files:">> \o Bullets(list)
  ELSE <<"No changes needed (already patched).">>

\* The end of main: the report, then the process ends with code 0.
Report ==
  /\ pc = "report"
  /\ stdout' = PrintReport(changed)
  /\ exitCode' = 0
  /\ pc' = "exit"
  /\ UNCHANGED <<files, babel, run, changed, reads, writes, thrown, before, prev,
                 last, edVars, cv, auxVars>>

\* One code for every failure.
ExitCodeSame(name) == IF name = "PatchError" THEN 1 ELSE 1

\* process.exit(e?.name === 'PatchError' ? 2 : 1)
ExitCodeFor(name) == IF name = "PatchError" THEN 2 ELSE 1

Catch ==
  /\ pc = "catch"
  /\ exitCode' = ExitCodeFor(thrown.name)
  /\ pc' = "exit"
  /\ UNCHANGED <<files, babel, run, changed, reads, writes, stdout, thrown, before,
                 prev, last, edVars, cv, auxVars>>

\* The tool is started again on the tree the last invocation left.
Rerun ==
  /\ pc = "exit"
  /\ run < MaxRuns
  /\ run' = run + 1
  /\ pc' = "start"
  /\ changed' = <<>>
  /\ reads' = <<>>
  /\ writes' = <<>>
  /\ stdout' = <<>>
  /\ thrown' = NoError
  /\ exitCode' = -1
  /\ before' = files
  /\ prev' = [exitCode |-> exitCode, before |-> before, files |-> files]
  /\ last' = NoRule
  /\ UNCHANGED <<files, babel, edVars, cv, auxVars>>

EdIdle ==
  /\ edText = <<>> /\ edEdits = <<>> /\ edSorted = <<>> /\ edIdx = 0
  /\ edOut = <<>> /\ edPc = "idle"

CvIdle == cv = [step |-> -1]

AuxIdle ==
  /\ fg = [step |-> -1]
  /\ mg = [step |-> -1]
  /\ col = [step |-> -1]
  /\ tx = [step |-> -1]

OrchInit(fs, b) ==
  /\ files = fs
  /\ babel = b
  /\ pc = "start"
  /\ run = 1
  /\ changed = <<>>
  /\ reads = <<>>
  /\ writes = <<>>
  /\ stdout = <<>>
  /\ thrown = NoError
  /\ exitCode = -1
  /\ before = fs
  /\ prev = NoPrev
  /\ last = NoRule

OrchIdle ==
  /\ files = [f \in FileNames |-> NoFile]
  /\ babel = FALSE
  /\ pc = "idle"
  /\ run = 0
  /\ changed = <<>>
  /\ reads = <<>>
  /\ writes = <<>>
  /\ stdout = <<>>
  /\ thrown = NoError
  /\ exitCode = -1
  /\ before = [f \in FileNames |-> NoFile]
  /\ prev = NoPrev
  /\ last = NoRule

\* A checkout without the Babel packages ends before any file is read: one
\* indentation and one line ending of the files stand for all of them.
Init ==
  /\ \E indent \in 0..MaxIndent, eol \in Eols :
       \E b \in (IF indent = 0 /\ eol = <<LF>> THEN BOOLEAN ELSE {TRUE}),
          fa \in PreinjectFiles(indent, eol), fb \in IndexFiles(indent, eol),
          fc \in InjectFiles(indent, eol), fd \in TypesFiles(indent, eol) :
         OrchInit([f \in FileNames |->
                     CASE f = PREINJECT -> fa [] f = INDEX -> fb
                       [] f = INJECT -> fc [] f = TYPES -> fd], b)
  /\ EdIdle
  /\ CvIdle
  /\ AuxIdle

Next ==
  \/ LoadBabel
  \/ RunPreinject
  \/ RunContentIndex
  \/ RunInject
  \/ RunTypes
  \/ Report
  \/ Catch
  \/ Rerun

Spec == Init /\ [][Next]_vars

\* ------------------------------------------------- applyEdits step by step
\* The text is 1, 2, ..., n: a text with equal characters can only make more
\* outputs equal.  Replacements are made of characters the text does not hold.
Texts == {[i \in 1..n |-> i] : n \in 0..MaxTextLen}
Replacements == {<<>>, <<-1>>, <<-2, -3>>}

EditsOf(text) ==
  {Edit(s, e, r) : s \in 0..Len(text), e \in 0..Len(text), r \in Replacements}

RangeOk(e) == e.start <= e.end

EditLists(text) ==
  UNION {{l \in [1..k -> {e \in EditsOf(text) : RangeOk(e)}] : TRUE} :
           k \in 0..MaxEdits}

EdInit ==
  /\ edText \in Texts
  /\ edEdits \in EditLists(edText)
  /\ edSorted = <<>>
  /\ edIdx = 0
  /\ edOut = <<>>
  /\ edPc = "sort"
  /\ OrchIdle
  /\ CvIdle
  /\ AuxIdle

\* const sorted = edits.slice().sort(...); let out = text;
EdSort ==
  /\ edPc = "sort"
  /\ edSorted' = SortEdits(edEdits)
  /\ edOut' = edText
  /\ edPc' = "loop"
  /\ UNCHANGED <<edText, edEdits, edIdx, orchVars, cv, auxVars>>

\* One turn of `for (const e of sorted)`.
EdSplice ==
  /\ edPc = "loop"
  /\ edIdx < Len(edSorted)
  /\ edOut' = Splice(edOut, edSorted[edIdx + 1])
  /\ edIdx' = edIdx + 1
  /\ UNCHANGED <<edText, edEdits, edSorted, edPc, orchVars, cv, auxVars>>

\* return out;
EdReturn ==
  /\ edPc = "loop"
  /\ edIdx = Len(edSorted)
  /\ edPc' = "done"
  /\ UNCHANGED <<edText, edEdits, edSorted, edIdx, edOut, orchVars, cv, auxVars>>

EdNext ==
  \/ EdSort
  \/ EdSplice
  \/ EdReturn

SpecEdits == EdInit /\ [][EdNext]_vars

\* ------------------------------------- one rule on a stale and on a bare file
\* Rule A: each fragment is absent, stale or current; the present ones stand
\* in canonical order before the return statement.
FragmentState(name) ==
  IF name \in {"injectInfo", "injectGmi"} THEN {"absent", "current"}
  ELSE {"absent", "stale", "current"}

FragmentSet == {FragmentNames[i] : i \in 1..Len(FragmentNames)}

FragmentStates ==
  {st \in [FragmentSet -> {"absent", "stale", "current"}] :
     \A n \in FragmentSet : st[n] \in FragmentState(n)}

SourceOf(name, state) ==
  CASE state = "stale" /\ name = "container" -> One("container.v1")
    [] state = "stale" /\ name = "injectOut" -> Two("injectOut.v0")
    [] state = "stale" /\ name = "earlyReturn" -> One("early.v0")
    [] OTHER -> genNode(desiredByName(name))

RECURSIVE Present(_, _)
Present(st, names) ==
  IF names = <<>> THEN <<>>
  ELSE (IF st[Head(names)] = "absent" THEN <<>>
        ELSE <<SourceOf(Head(names), st[Head(names)])>>)
         \o Present(st, Tail(names))

GetInjectedFile(st, ret, indent, eol) ==
  Block("method:GetInjected{",
        <<One("stmt.x")>> \o Present(st, FragmentNames) \o <<ret>>, indent, eol)

InitFile(ours, rest, indent, eol) ==
  Block("function:init{", <<One("info=data.info")>> \o ours \o rest, indent, eol)

RuleOn(rule, code) ==
  IF rule = "A" THEN patchPreinject(code) ELSE patchContentIndex(code)

After(code, r) == IF r.writes = <<>> THEN code ELSE r.writes[Len(r.writes)]

CvInit ==
  /\ \E indent \in 0..MaxIndent, eol \in Eols :
       \/ \E st \in FragmentStates, n \in FragmentSet,
             ret \in {One("ret.inject"), Two("ret.injectOut~")} :
            /\ st[n] = "stale"
            /\ cv = [step |-> 0, rule |-> "A",
                     stale |-> GetInjectedFile(st, ret, indent, eol),
                     absent |-> GetInjectedFile([st EXCEPT ![n] = "absent"], ret,
                                                indent, eol),
                     rs |-> NoRule, ra |-> NoRule]
       \/ \E rest \in {<<>>, <<One("stmt.x")>>} :
            cv = [step |-> 0, rule |-> "B",
                  stale |-> InitFile(<<Two("ifc.v0")>>, rest, indent, eol),
                  absent |-> InitFile(<<>>, rest, indent, eol),
                  rs |-> NoRule, ra |-> NoRule]
  /\ OrchIdle
  /\ EdIdle
  /\ AuxIdle

\* The rule runs once on each of the two files.
CvRun ==
  /\ cv.step \in 0..(MaxRuns - 1)
  /\ LET rs == RuleOn(cv.rule, cv.stale)
         ra == RuleOn(cv.rule, cv.absent)
     IN cv' = [cv EXCEPT !.step = @ + 1, !.rs = rs, !.ra = ra,
                         !.stale = After(cv.stale, rs),
                         !.absent = After(cv.absent, ra)]
  /\ UNCHANGED <<orchVars, edVars, auxVars>>

CvNext == CvRun

SpecConv == CvInit /\ [][CvNext]_vars

\* ------------------------------------------------------ getColumnAt, alone
\* Every text of line-ending characters and one other character.
ColTexts == UNION {[1..n -> {CR, LF, "x"}] : n \in 0..MaxTextLen}

ColInit ==
  /\ \E text \in ColTexts : \E index \in 0..Len(text) :
       col = [step |-> 0, text |-> text, index |-> index, result |-> 0]
  /\ OrchIdle
  /\ EdIdle
  /\ CvIdle
  /\ fg = [step |-> -1]
  /\ mg = [step |-> -1]
  /\ tx = [step |-> -1]

\* getColumnAt(text, index, detectEol(text)) is called and returns.
ColRun ==
  /\ col.step = 0
  /\ col' = [col EXCEPT !.step = 1,
                        !.result = getColumnAt(col.text, col.index, detectEol(col.text))]
  /\ UNCHANGED <<orchVars, edVars, cv, fg, mg, tx>>

ColNext == ColRun

SpecCol == ColInit /\ [][ColNext]_vars

\* --------------------------------------------------- Rule B as text, alone
TextIndexBodies ==
  IndexBodies
    \cup { <<One("info=data.info"), Two("ifc.text"), One("stmt.x")>>,
           <<One("info=data.info"), Two("ifc.v0")>>,
           <<Two("ifc.v0"), One("stmt.x")>> }

TxInit ==
  /\ \E indent \in 0..MaxIndent, eol \in Eols, b \in TextIndexBodies,
        head \in {"function:init{", "function:other{"} :
       tx = [step |-> 0, read |-> NoFile, code |-> Block(head, b, indent, eol),
             r |-> NoRule]
  /\ OrchIdle
  /\ EdIdle
  /\ CvIdle
  /\ fg = [step |-> -1]
  /\ mg = [step |-> -1]
  /\ col = [step |-> -1]

\* The text-based patchContentIndex runs on the file the last run left.
TxRun ==
  /\ tx.step \in 0..(MaxRuns - 1)
  /\ LET r == patchContentIndexText(tx.code)
     IN tx' = [tx EXCEPT !.step = @ + 1, !.read = tx.code, !.r = r,
                         !.code = After(tx.code, r)]
  /\ UNCHANGED <<orchVars, edVars, cv, fg, mg, col>>

TxNext == TxRun

SpecText == TxInit /\ [][TxNext]_vars

\* ------------------------------------------- Rule A on every fragment state
FgInit ==
  /\ \E st \in FragmentStates, indent \in 0..MaxIndent, eol \in Eols,
        ret \in {One("ret.inject"), Two("ret.injectOut~")} :
       fg = [step |-> 0, st |-> st,
             orig |-> GetInjectedFile(st, ret, indent, eol),
             code |-> GetInjectedFile(st, ret, indent, eol), r |-> NoRule]
  /\ OrchIdle
  /\ EdIdle
  /\ CvIdle
  /\ mg = [step |-> -1]
  /\ col = [step |-> -1]
  /\ tx = [step |-> -1]

\* patchPreinject runs on the file the last run left.
FgRun ==
  /\ fg.step \in 0..(MaxRuns - 1)
  /\ LET r == patchPreinject(fg.code)
     IN fg' = [fg EXCEPT !.step = @ + 1, !.r = r, !.code = After(fg.code, r)]
  /\ UNCHANGED <<orchVars, edVars, cv, mg, col, tx>>

FgNext == FgRun

SpecFrag == FgInit /\ [][FgNext]_vars

\* ------------------------------------ the assignment Rule C leaves, executed
\* The keys info.gmi can carry.
Keys == {"isIncognito", "container", "version"}

\* The objects over those keys whose values all come from one origin.
Objects(origin) == UNION {[K -> {origin}] : K \in SUBSET Keys}

\* The extension's createNullObj(): an object without keys.
createNullObj == [k \in {} |-> ""]

\* The extension's assign(target, source): the source's keys are copied onto
\* the target, which is returned.
assign(target, source) ==
  [k \in (DOMAIN target) \cup (DOMAIN source) |->
     IF k \in DOMAIN source THEN source[k] ELSE target[k]]

\* info.gmi before the assignment runs: not set, or an object.
Priors ==
  {[set |-> FALSE, obj |-> createNullObj]}
    \cup {[set |-> TRUE, obj |-> o] : o \in Objects("previous")}

\* The value of the first argument of the call.
EvalFirst(first, prior) ==
  IF first = "info.gmi||createNullObj()"
  THEN (IF prior.set THEN prior.obj ELSE createNullObj)
  ELSE createNullObj

\* The value the right-hand side evaluates to when info.gmi is prior and the
\* literal L denotes lit.
Eval(tok, prior, lit) ==
  LET e == ExprOf(tok)
      second == IF e.second = "{L}" THEN lit ELSE createNullObj
  IN IF e.callee = "assign" THEN assign(EvalFirst(e.first, prior), second)
     ELSE second

\* The right-hand side of the first assignment to info.gmi in injectScripts.
RightOf(code) ==
  LET fn == FindTok(code, "function:injectScripts{", 1, Len(code))
      hits == {i \in (fn + 1)..(MatchClose(code, fn) - 2) : code[i] = AssignLeft}
  IN code[(CHOOSE i \in hits : \A j \in hits : i <= j) + 1]

LiteralBodies == {b \in InjectBodies : b[1][1] = AssignLeft /\ b[1][2] \in ObjectLiterals}

MgInit ==
  /\ \E indent \in 0..MaxIndent, eol \in Eols, b \in LiteralBodies,
        prior \in Priors, lit \in Objects("literal") :
       mg = [step |-> 0, orig |-> Block("function:injectScripts{", b, indent, eol),
             code |-> Block("function:injectScripts{", b, indent, eol),
             prior |-> prior, lit |-> lit, ret |-> NoRule, value |-> createNullObj]
  /\ OrchIdle
  /\ EdIdle
  /\ CvIdle
  /\ fg = [step |-> -1]
  /\ col = [step |-> -1]
  /\ tx = [step |-> -1]

\* patchInject runs on the file.
MgPatch ==
  /\ mg.step = 0
  /\ LET r == patchInject(mg.code)
     IN mg' = [mg EXCEPT !.step = 1, !.ret = r, !.code = After(mg.code, r)]
  /\ UNCHANGED <<orchVars, edVars, cv, fg, col, tx>>

\* The extension executes the assignment of the patched file.
MgEval ==
  /\ mg.step = 1
  /\ mg' = [mg EXCEPT !.step = 2,
                      !.value = Eval(RightOf(mg.code), mg.prior, mg.lit)]
  /\ UNCHANGED <<orchVars, edVars, cv, fg, col, tx>>

MgNext ==
  \/ MgPatch
  \/ MgEval

SpecMerge == MgInit /\ [][MgNext]_vars

\* ================================================= properties of the rules
\* The rule of file f is the one that ran last in this invocation.  It read
\* before[f]: no other rule writes f.
JustRan(f) == reads # <<>> /\ reads[Len(reads)] = f

Parses(code) == code # NoFile /\ ~ParseThrows(code)

\* The body of the anchor of Rule A, B or C in code, <<>> without the anchor.
AnchorOf(f) ==
  CASE f = PREINJECT -> "method:GetInjected{"
    [] f = INDEX -> "function:init{"
    [] f = INJECT -> "function:injectScripts{"

HasAnchor(f, code) == FindTok(code, AnchorOf(f), 1, Len(code)) # 0

AnchorBody(f, code) ==
  IF HasAnchor(f, code) THEN BodyStmts(code, FindTok(code, AnchorOf(f), 1, Len(code)))
  ELSE <<>>

Toks(stmts) == [i \in 1..Len(stmts) |-> stmts[i].tok]

\* The right-hand sides of the assignments to info.gmi in injectScripts.
GmiRights(code) ==
  LET fn == FindTok(code, AnchorOf(INJECT), 1, Len(code))
  IN {code[i + 1] : i \in {j \in (fn + 1)..(MatchClose(code, fn) - 2) :
                             code[j] = AssignLeft}}

\* The members of VMInjection.Info.gmi, <<>> without that type literal.
GmiMembers(code) ==
  LET ns == FindTok(code, "namespace:VMInjection{", 1, Len(code))
      iface == IF ns = 0 THEN 0
               ELSE FindTok(code, "interface:Info{", ns + 1, MatchClose(code, ns) - 1)
      gmi == IF iface = 0 THEN 0
             ELSE FindTok(code, "gmi:{", iface + 1, MatchClose(code, iface) - 1)
  IN IF gmi = 0 THEN <<>> ELSE Toks(BodyStmts(code, gmi))

\* The message for the anchor that code lacks, "" when it has them all.
MissingAnchor(f, code) ==
  CASE f = PREINJECT ->
         IF HasAnchor(f, code) THEN ""
         ELSE "preinject.js: cannot find ObjectMethod GetInjected"
    [] f = INDEX ->
         IF HasAnchor(f, code) THEN "" ELSE "content/index.js: cannot find function init"
    [] f = INJECT ->
         IF HasAnchor(f, code) THEN ""
         ELSE "inject.js: cannot find function injectScripts"
    [] f = TYPES ->
         LET ns == FindTok(code, "namespace:VMInjection{", 1, Len(code))
             iface == IF ns = 0 THEN 0
                      ELSE FindTok(code, "interface:Info{", ns + 1,
                                   MatchClose(code, ns) - 1)
         IN IF ns = 0 THEN "types.d.ts: cannot find namespace VMInjection"
            ELSE IF iface = 0 THEN "types.d.ts: cannot find interface VMInjection.Info"
            ELSE IF FindTok(code, "gmi:{", iface + 1, MatchClose(code, iface) - 1) = 0
            THEN "types.d.ts: cannot find VMInjection.Info.gmi"
            ELSE ""

\* Whether code, which has the anchor, has the statement the rule changes.
HasTarget(f, code) ==
  CASE f = PREINJECT ->
         LET body == AnchorBody(f, code)
         IN \E i \in 1..Len(body) : IsAppliedReturn(body[i])
    [] f = INDEX ->
         LET body == AnchorBody(f, code)
         IN \E i \in 1..Len(body) : IsInfoStmt(body[i])
    [] f = INJECT -> GmiRights(code) \cap ObjectLiterals # {}
    [] f = TYPES ->
         LET members == GmiMembers(code)
         IN \E i \in 1..Len(members) : MemberName(members[i]) = "isIncognito"

\* Whether code holds what an earlier run of the rule of f may have left in
\* place of the target.
HasPatchedForm(f, code) ==
  CASE f = INJECT -> GmiRights(code) \cap AssignCalls # {}
    [] f = TYPES ->
         LET members == GmiMembers(code)
         IN \E i \in 1..Len(members) : MemberName(members[i]) = "container"
    [] OTHER -> FALSE

MissingTarget(f) ==
  CASE f = PREINJECT ->
         "preinject.js: cannot find return statement \"return isApplied ? ...\" in GetInjected"
    [] f = INDEX -> "content/index.js: cannot find statement \"const info = data.info;\""
    [] f = INJECT ->
         "inject.js: cannot find assignment \"info.gmi = { ... }\" in injectScripts"
    [] f = TYPES -> "types.d.ts: cannot find VMInjection.Info.gmi.isIncognito property"

\* The rule of f threw a PatchError with this message and wrote nothing.
FailedWith(f, msg) ==
  /\ last.kind = "PatchError"
  /\ last.msg = msg
  /\ last.writes = <<>>
  /\ files[f] = before[f]
  /\ \A i \in 1..Len(writes) : writes[i].file # f
  /\ thrown = [name |-> "PatchError", message |-> msg]

\* C1: whenever one invocation ran the four rules without an error, the next
\* invocation, started on the files it left, also completes without an error,
\* every rule returns false, nothing is written and every file is as the
\* first invocation left it.
C1_Idempotence ==
  (run >= 2 /\ prev.exitCode = 0) =>
    /\ thrown = NoError
    /\ pc # "catch"
    /\ pc = "exit" => exitCode = 0
    /\ last.kind = "ok" /\ ~last.ret
    /\ changed = <<>>
    /\ writes = <<>>
    /\ files = prev.files

\* C1 does not hold: the first invocation wrapped the object literal of
\* inject.js and ended with code 0, the second one ends with code 2.
C1_SecondRunFails ==
  /\ run = 2
  /\ prev.exitCode = 0
  /\ prev.before[INJECT] # prev.files[INJECT]
  /\ pc = "exit"
  /\ exitCode = 2
  /\ JustRan(INJECT)

\* C2 as stated: a rule whose file parses but lacks the rule's anchor, or has
\* the anchor and lacks the target statement, throws a PatchError whose
\* message names what is missing, and writes nothing.
C2_AsStated ==
  \A f \in FileNames :
    (JustRan(f) /\ Parses(before[f])) =>
      /\ MissingAnchor(f, before[f]) # "" => FailedWith(f, MissingAnchor(f, before[f]))
      /\ (MissingAnchor(f, before[f]) = "" /\ ~HasTarget(f, before[f])) =>
           FailedWith(f, MissingTarget(f))

\* C2, amended: a rule whose file parses but lacks the rule's anchor throws a
\* PatchError whose message names the anchor; a rule whose file has the anchor
\* but neither the target statement nor a form that stands for an earlier
\* patch (for patchInject an assign(...) call as the value of info.gmi, for
\* patchTypes a container member) throws a PatchError whose message names the
\* target.  In both cases the rule writes nothing.
C2_FailFast ==
  \A f \in FileNames :
    (JustRan(f) /\ Parses(before[f])) =>
      /\ MissingAnchor(f, before[f]) # "" => FailedWith(f, MissingAnchor(f, before[f]))
      /\ ( /\ MissingAnchor(f, before[f]) = ""
           /\ ~HasTarget(f, before[f])
           /\ ~HasPatchedForm(f, before[f]) ) =>
           FailedWith(f, MissingTarget(f))

\* C2 happens: the first three rules returned, types.d.ts has the gmi type
\* literal without isIncognito and without container, patchTypes threw.
C2_Witness ==
  /\ JustRan(TYPES)
  /\ Parses(before[TYPES])
  /\ MissingAnchor(TYPES, before[TYPES]) = ""
  /\ ~HasTarget(TYPES, before[TYPES])
  /\ ~HasPatchedForm(TYPES, before[TYPES])
  /\ last.kind = "PatchError"
  /\ pc = "exit"

\* The statements of a body as @babel/generator prints them: the sequence
\* up to whitespace and formatting.
CanonToks(stmts) == [i \in 1..Len(stmts) |-> Canon(stmts[i].tok)]

CvFile == IF cv.rule = "A" THEN PREINJECT ELSE INDEX

\* C3: a file with one managed fragment in stale form and the same file
\* without that fragment have, after one run of the rule, the same sequence
\* of statements in the anchor's body up to formatting, and a further run of
\* the rule returns false on both.
C3_UpgradeConvergence ==
  cv.step >= 1 =>
    /\ cv.rs.kind = "ok" /\ cv.ra.kind = "ok"
    /\ CanonToks(AnchorBody(CvFile, cv.stale)) = CanonToks(AnchorBody(CvFile, cv.absent))
    /\ cv.step >= 2 => ~cv.rs.ret /\ ~cv.ra.ret

\* C3 does not hold: the stale container statement was replaced where it
\* stood, the absent one went in before the return statement, after the
\* injectOut statement that reads it.
C3_OrderDiffers ==
  /\ cv.step = 1
  /\ cv.rule = "A"
  /\ CanonToks(AnchorBody(PREINJECT, cv.stale))
       = <<"stmt.x", "container.cur", "injectInfo.cur", "injectGmi.cur",
           "injectOut.cur", "early.cur", "ret.injectOut">>
  /\ CanonToks(AnchorBody(PREINJECT, cv.absent))
       = <<"stmt.x", "injectInfo.cur", "injectGmi.cur", "injectOut.cur",
           "early.cur", "container.cur", "ret.injectOut">>

\* A GetInjected whose body has `return isApplied ? inject : {};` and none of
\* the five fragments.
Pristine(code) ==
  /\ Parses(code)
  /\ HasAnchor(PREINJECT, code)
  /\ LET body == AnchorBody(PREINJECT, code)
     IN /\ \E i \in 1..Len(body) : body[i].tok \in {"ret.inject", "ret.inject~"}
        /\ \A n \in FragmentSet : FragmentIdx(body, n) = 0

\* C4: on a pristine GetInjected patchPreinject returns true and writes a file
\* in which the declarations of container, injectInfo, injectGmi, injectOut
\* and the guard `if (isApplied && done) return ...` stand in this order
\* immediately before the return statement, the statements before them are
\* the old ones, and the return statement reads injectOut and no longer
\* inject; patchPreinject on that file returns false and writes nothing.
C4_PristineScenario ==
  /\ (Len(reads) = 1 /\ Pristine(before[PREINJECT])) =>
       LET old == AnchorBody(PREINJECT, before[PREINJECT])
           out == AnchorBody(PREINJECT, files[PREINJECT])
           r0 == FindIdx({i \in 1..Len(old) : IsAppliedReturn(old[i])})
           r == FindIdx({i \in 1..Len(out) : IsAppliedReturn(out[i])})
           again == patchPreinject(files[PREINJECT])
       IN /\ last.kind = "ok" /\ last.ret
          /\ last.writes = <<files[PREINJECT]>>
          /\ files[PREINJECT] # before[PREINJECT]
          /\ r = r0 + Len(FragmentNames)
          /\ Len(out) = Len(old) + Len(FragmentNames)
          /\ \A i \in 1..Len(FragmentNames) :
               /\ out[r0 - 1 + i].tok = desiredByName(FragmentNames[i])
               /\ FragmentIdx(out, FragmentNames[i]) = r0 - 1 + i
          /\ \A i \in 1..(r0 - 1) : out[i].tok = old[i].tok
          /\ "inject" \notin Lex(out[r].tok).idents
          /\ "injectOut" \in Lex(out[r].tok).idents
          /\ again.kind = "ok" /\ ~again.ret /\ again.writes = <<>>
  /\ (run >= 2 /\ Len(reads) = 1 /\ Pristine(prev.before[PREINJECT])) =>
       /\ last.kind = "ok" /\ ~last.ret
       /\ last.writes = <<>>
       /\ files[PREINJECT] = prev.files[PREINJECT]

\* C4 happens: the invocation before this one patched a pristine GetInjected
\* and patchPreinject has run again on what it wrote.
C4_Witness ==
  /\ run = 2
  /\ Len(reads) = 1
  /\ Pristine(prev.before[PREINJECT])
  /\ prev.files[PREINJECT] # prev.before[PREINJECT]
  /\ ~last.ret

\* ===================================================== properties of applyEdits
Disjoint(a, b) == a.end <= b.start \/ b.end <= a.start

Nested(a, b) == b.start <= a.start /\ a.end <= b.end

PairwiseDisjoint(edits) ==
  \A i, j \in 1..Len(edits) : i < j => Disjoint(edits[i], edits[j])

DisjointOrNested(edits) ==
  \A i, j \in 1..Len(edits) :
    i < j => \/ Disjoint(edits[i], edits[j])
             \/ Nested(edits[i], edits[j])
             \/ Nested(edits[j], edits[i])

Perms(n) == {p \in [1..n -> 1..n] : \A i, j \in 1..n : i # j => p[i] # p[j]}

\* p lists the edits from left to right in the original text.
LeftToRight(edits, p) ==
  \A i \in 1..(Len(edits) - 1) : edits[p[i]].end <= edits[p[i + 1]].start

\* One pass over the original text from offset pos: the text between the
\* edits is copied, each range gives way to its replacement.
RECURSIVE OnePass(_, _, _, _, _)
OnePass(text, edits, p, i, pos) ==
  IF i > Len(edits) THEN SliceFrom(text, pos)
  ELSE Slice(text, pos, edits[p[i]].start) \o edits[p[i]].replacement
         \o OnePass(text, edits, p, i + 1, edits[p[i]].end)

\* Insertions at one offset have no order in the original text: each
\* left-to-right order of the edits is a one-pass substitution.
OnePassResults(text, edits) ==
  {OnePass(text, edits, p, 1, 0) :
     p \in {q \in Perms(Len(edits)) : LeftToRight(edits, q)}}

\* C5: for every text and every list of edits whose ranges lie in the text and
\* do not overlap pairwise, what applyEdits returns after splicing the edits
\* in descending order is the text that one pass over the original text gives
\* when it puts every replacement at its original offsets.
C5_OnePassSubstitution ==
  (edPc = "done" /\ PairwiseDisjoint(edEdits)) =>
    /\ edOut \in OnePassResults(edText, edEdits)
    /\ edOut = applyEdits(edText, edEdits)

\* C5 happens: two edits apart from each other, given in ascending order, of
\* which the left one makes the text longer and the right one shorter.
C5_Witness ==
  /\ edPc = "done"
  /\ edText = <<1, 2, 3>>
  /\ edEdits = <<Edit(0, 1, <<-2, -3>>), Edit(2, 3, <<>>)>>
  /\ edOut = <<-2, -3, 2>>

SortedDescending(sorted) ==
  \A i, j \in 1..Len(sorted) :
    i < j => \/ sorted[i].start > sorted[j].start
             \/ sorted[i].start = sorted[j].start /\ sorted[i].end >= sorted[j].end

\* The edit that the loop of applyEdits is about to splice finds the working
\* buffer, up to the edit's end, as the original text was.
OffsetsValid ==
  (edPc = "loop" /\ edIdx < Len(edSorted)) =>
    /\ SortedDescending(edSorted)
    /\ Slice(edOut, 0, edSorted[edIdx + 1].end)
         = Slice(edText, 0, edSorted[edIdx + 1].end)

\* C6 as stated: for every edit set whose ranges are pairwise disjoint or
\* nested, each edit is applied to a buffer that is, up to the edit's end,
\* still the original text.
C6_AsStated == DisjointOrNested(edEdits) => OffsetsValid

\* C6, amended: for every edit set whose ranges are pairwise disjoint (an
\* insertion at s and a replacement of [s,e) are), the edits are spliced by
\* descending start and, for equal starts, descending end, and each edit is
\* applied to a buffer that is, up to the edit's end, still the original text.
C6_OffsetsValidWhenDisjoint == PairwiseDisjoint(edEdits) => OffsetsValid

\* C6 happens: an insertion at 1 and a replacement of [1,2) that makes the
\* text longer; the replacement is spliced, the insertion is next.
C6_Witness ==
  /\ edPc = "loop"
  /\ edIdx = 1
  /\ edEdits = <<Edit(1, 1, <<-1>>), Edit(1, 2, <<-2, -3>>)>>
  /\ edSorted = <<Edit(1, 2, <<-2, -3>>), Edit(1, 1, <<-1>>)>>
  /\ edOut = <<1, -2, -3, 3>>

\* ============================================== properties of the orchestrator
IsPrefix(a, b) == Len(a) <= Len(b) /\ a = SubSeq(b, 1, Len(a))

Failing == pc = "catch" \/ (pc = "exit" /\ exitCode # 0)

\* C7: the rules are called in the order patchPreinject, patchContentIndex,
\* patchInject, patchTypes, one after the other has returned; once a rule has
\* thrown, no later rule reads or writes its file, what earlier rules wrote
\* stays written, the report is not printed and the exit code is not 0.
C7_FailFast ==
  /\ IsPrefix(reads, RuleOrder)
  /\ pc \in FileNames => thrown = NoError /\ pc = RuleOrder[Len(reads) + 1]
  /\ \A i \in 1..Len(writes) : \E j \in 1..Len(reads) : writes[i].file = reads[j]
  /\ (thrown # NoError /\ reads # <<>>) =>
       last.kind = thrown.name /\ last.kind # "ok"
  /\ thrown # NoError =>
       /\ Failing
       /\ stdout = <<>>
       /\ \A i \in 1..Len(writes) : files[writes[i].file] = writes[i].content
       /\ \A f \in FileNames :
            (\A i \in 1..Len(writes) : writes[i].file # f) => files[f] = before[f]
       /\ pc = "exit" => exitCode \in {1, 2}

\* C7 happens: patchPreinject wrote its file, patchInject threw, patchTypes
\* was not called, the process ended with code 2 and printed nothing.
C7_Witness ==
  /\ pc = "exit"
  /\ exitCode = 2
  /\ reads = <<PREINJECT, INDEX, INJECT>>
  /\ \E i \in 1..Len(writes) : writes[i].file = PREINJECT
  /\ files[PREINJECT] # before[PREINJECT]
  /\ stdout = <<>>

\* C8: the process ends with code 0 exactly when the four rules returned
\* without throwing, with code 2 exactly when what was thrown is a
\* PatchError, and with code 1 when anything else was thrown.
C8_ExitCodes ==
  /\ (thrown # NoError /\ reads # <<>>) => thrown.name = last.kind
  /\ (thrown # NoError /\ reads = <<>>) => ~babel /\ thrown.name = "Error"
  /\ pc = "exit" =>
       /\ exitCode \in {0, 1, 2}
       /\ exitCode = 0 <=> (thrown = NoError /\ reads = RuleOrder /\ last.kind = "ok")
       /\ exitCode = 2 <=> thrown.name = "PatchError"
       /\ exitCode = 1 <=> (thrown # NoError /\ thrown.name # "PatchError")

\* C8 happens: the parser threw a SyntaxError on content/index.js and the
\* process ended with code 1.
C8_Witness ==
  /\ pc = "exit"
  /\ exitCode = 1
  /\ JustRan(INDEX)
  /\ thrown.name = "SyntaxError"

RECURSIVE Modified(_)
Modified(paths) ==
  IF paths = <<>> THEN <<>>
  ELSE (IF files[Head(paths)] # before[Head(paths)] THEN <<Head(paths)>> ELSE <<>>)
         \o Modified(Tail(paths))

\* C10: when the invocation ends without an error, the paths printed under
\* "Patched files:" are the files whose content differs from what it was when
\* the invocation started, in rule order; "No changes needed" is printed
\* exactly when no file differs; a rule that returned false wrote nothing.
C10_ReportIsWhatChanged ==
  /\ (reads # <<>> /\ last.kind = "ok" /\ ~last.ret) =>
       /\ last.writes = <<>>
       /\ files[reads[Len(reads)]] = before[reads[Len(reads)]]
  /\ (pc = "exit" /\ exitCode = 0) =>
       /\ changed = Modified(RuleOrder)
       /\ stdout = IF Modified(RuleOrder) = <<>>
                   THEN <<"No changes needed (already patched).">>
                   ELSE <<"Patched files:">>
                          \o [i \in 1..Len(Modified(RuleOrder)) |->
                                "- " \o Modified(RuleOrder)[i]]
       /\ stdout = <<"No changes needed (already patched).">> <=> files = before

\* C10 happens: an invocation ended with code 0 after patchPreinject and
\* patchTypes changed their files and the two other rules returned false.
C10_Witness ==
  /\ pc = "exit"
  /\ exitCode = 0
  /\ changed = <<PREINJECT, TYPES>>
  /\ stdout = <<"Patched files:", "- " \o PREINJECT, "- " \o TYPES>>
  /\ files[INDEX] = before[INDEX]
  /\ files[INJECT] = before[INJECT]

\* ============================================ properties of the merge call
\* C11: when patchInject rewrites `info.gmi = L`, the new right-hand side is
\* the call assign(info.gmi || createNullObj(), L) with the same literal L as
\* its second argument and nothing else in the file changes; executing the
\* assignment gives an object that has the keys of the previous info.gmi and
\* of L, every key of L with L's value, every other previous key with its
\* previous value, and exactly L when info.gmi was not set.
C11_NonDestructiveMerge ==
  /\ (mg.step >= 1 /\ mg.ret.writes # <<>>) =>
       LET new == ExprOf(RightOf(mg.code))
           old == ExprOf(RightOf(mg.orig))
       IN /\ new.callee = "assign"
          /\ new.first = "info.gmi||createNullObj()"
          /\ new.second = old.second
          /\ Len(mg.code) = Len(mg.orig)
          /\ \A i \in 1..Len(mg.code) :
               mg.code[i] # mg.orig[i] => mg.orig[i] \in ObjectLiterals
  /\ (mg.step = 2 /\ mg.ret.writes # <<>>) =>
       /\ DOMAIN mg.value = (DOMAIN mg.prior.obj) \cup (DOMAIN mg.lit)
       /\ \A k \in DOMAIN mg.lit : mg.value[k] = mg.lit[k]
       /\ \A k \in (DOMAIN mg.prior.obj) \ (DOMAIN mg.lit) :
            mg.value[k] = mg.prior.obj[k]
       /\ ~mg.prior.set => mg.value = mg.lit

\* The assignment ran where info.gmi held a key the literal does not have and
\* a key the literal overrides.
C11_Witness ==
  /\ mg.step = 2
  /\ mg.ret.writes # <<>>
  /\ mg.prior.set
  /\ (DOMAIN mg.prior.obj) \ (DOMAIN mg.lit) # {}
  /\ (DOMAIN mg.prior.obj) \cap (DOMAIN mg.lit) # {}

\* ================================== properties of the rules, state by state
\* C12: when every assignment to info.gmi in injectScripts (there is one)
\* already has the form info.gmi = assign(info.gmi || createNullObj(), ...),
\* patchInject returns false, writes nothing and throws nothing; and it
\* throws the PatchError "cannot find assignment" only when injectScripts
\* holds neither an object literal nor an assign(...) call assigned to
\* info.gmi.
C12_Classification ==
  (JustRan(INJECT) /\ Parses(before[INJECT]) /\ HasAnchor(INJECT, before[INJECT])) =>
    /\ ( /\ GmiRights(before[INJECT]) # {}
         /\ \A r \in GmiRights(before[INJECT]) : FirstArgIsMerge(r) ) =>
         /\ last = Unchanged(<<>>)
         /\ thrown = NoError
         /\ files[INJECT] = before[INJECT]
         /\ \A i \in 1..Len(writes) : writes[i].file # INJECT
    /\ (last.kind = "PatchError" /\ last.msg = MissingTarget(INJECT)) =>
         GmiRights(before[INJECT]) \cap (ObjectLiterals \cup AssignCalls) = {}

\* C12 does not hold: the only assignment has the merged form and patchInject
\* threw the PatchError for a missing assignment.
C12_CurrentFormThrows ==
  /\ JustRan(INJECT)
  /\ Parses(before[INJECT])
  /\ GmiRights(before[INJECT]) = {CurrentCall}
  /\ FailedWith(INJECT, MissingTarget(INJECT))

\* ============================================ properties of the fragments
\* Whether a statement is the fragment of that name.
IsFragment(s, name) ==
  IF name = "earlyReturn" THEN IsEarlyReturn(s) ELSE Declares(name, s)

\* The indices of body that hold the fragment of that name.
Occurrences(body, name) == {i \in 1..Len(body) : IsFragment(body[i], name)}

\* The statements of body without the fragments that st has absent.
WithoutInserted(body, st) ==
  LET Kept(s) == \A n \in FragmentSet : st[n] = "absent" => ~IsFragment(s, n)
  IN Toks(SelectSeq(body, Kept))

\* C13: from every start state in which each of the five fragments is
\* absent, stale or current in the body of GetInjected, patchPreinject
\* completes, and afterwards the body holds each fragment exactly once and
\* each is judged current; a fragment that was stale stands where it stood,
\* now as the canonical rendering, a current one is as it was, and an absent
\* one has been inserted as the canonical rendering.
C13_NoDuplicateInsertion ==
  fg.step >= 1 =>
    LET body == AnchorBody(PREINJECT, fg.code)
        old == AnchorBody(PREINJECT, fg.orig)
        kept == WithoutInserted(body, fg.st)
    IN /\ fg.r.kind = "ok"
       /\ \A n \in FragmentSet :
            /\ Cardinality(Occurrences(body, n)) = 1
            /\ \A i \in Occurrences(body, n) :
                 /\ stmtLooksOk(body[i].tok, n)
                 /\ fg.st[n] # "current" => body[i].tok = desiredByName(n)
       /\ Len(kept) = Len(old)
       /\ \A i \in 1..Len(old) :
            \/ kept[i] = old[i].tok
            \/ /\ \E n \in FragmentSet :
                    IsFragment(old[i], n) /\ fg.st[n] = "stale"
                                          /\ kept[i] = desiredByName(n)
            \/ IsAppliedReturn(old[i]) /\ kept[i] = "ret.injectOut"

\* A run on a body with a stale, an absent and a current fragment wrote the
\* file.
C13_Witness ==
  /\ fg.step = 1
  /\ fg.r.ret
  /\ fg.st["container"] = "stale"
  /\ fg.st["injectInfo"] = "current"
  /\ fg.st["injectGmi"] = "absent"
  /\ fg.st["earlyReturn"] = "absent"

\* ==================================================== properties of Current
\* Whether the file of f holds every fragment its rule manages, each judged
\* current by the rule's own test.
AllCurrent(f, code) ==
  CASE f = PREINJECT ->
         LET body == AnchorBody(f, code)
         IN /\ \A n \in FragmentSet :
                 /\ Occurrences(body, n) # {}
                 /\ stmtLooksOk(body[FragmentIdx(body, n)].tok, n)
            /\ \E i \in 1..Len(body) :
                 IsAppliedReturn(body[i]) /\ "inject" \notin Lex(body[i].tok).idents
    [] f = INDEX ->
         LET body == AnchorBody(f, code)
         IN \E i \in 1..(Len(body) - 1) :
              /\ IsInfoStmt(body[i])
              /\ isOurIf(body[i + 1].tok)
              /\ currentOk(body[i + 1].tok)
    [] f = INJECT ->
         /\ HasAnchor(f, code)
         /\ GmiRights(code) # {}
         /\ \A r \in GmiRights(code) : FirstArgIsMerge(r)
    [] f = TYPES ->
         LET members == GmiMembers(code)
         IN \E i \in 1..Len(members) : MemberName(members[i]) = "container"

\* C14: a rule whose file already holds every fragment the rule manages in
\* current form returns false and writes nothing; for patchPreinject, whatever
\* the formatting of the existing return statement is.
C14_CurrentMeansUnchanged ==
  \A f \in FileNames :
    (JustRan(f) /\ Parses(before[f]) /\ AllCurrent(f, before[f])) =>
      /\ last.kind = "ok"
      /\ ~last.ret
      /\ last.writes = <<>>
      /\ files[f] = before[f]

\* C14 does not hold: the five fragments were current and the return
\* statement named injectOut, formatted otherwise than the generator prints
\* it; patchPreinject wrote the file and returned true, and the body holds
\* the same statements as before.
C14_ReformatsReturn ==
  /\ JustRan(PREINJECT)
  /\ Parses(before[PREINJECT])
  /\ AllCurrent(PREINJECT, before[PREINJECT])
  /\ last.kind = "ok"
  /\ last.ret
  /\ files[PREINJECT] # before[PREINJECT]
  /\ Len(last.edits) = 1
  /\ CanonToks(AnchorBody(PREINJECT, files[PREINJECT]))
       = CanonToks(AnchorBody(PREINJECT, before[PREINJECT]))

\* ============================================== properties of line endings
\* Whether every line break of text is the line ending eol: with CRLF every
\* line feed follows a carriage return, with LF there is no carriage return.
BreaksAre(text, eol) ==
  \A i \in 1..Len(text) :
    /\ text[i] = LF => (eol = <<CR, LF>>) = (i > 1 /\ text[i - 1] = CR)
    /\ text[i] = CR => eol = <<CR, LF>> /\ i < Len(text) /\ text[i + 1] = LF

\* C15: in every file a rule writes, each line break inside the text the
\* rule inserted or substituted is the line ending detectEol finds for the
\* file it read, also on the path that upgrades an older snippet: no bare
\* line feed goes into a file detected as CRLF.
C15_LineEndingConsistency ==
  (tx.step >= 1 /\ tx.r.writes # <<>>) =>
    /\ \A i \in 1..Len(tx.r.edits) :
         BreaksAre(tx.r.edits[i].replacement, detectEol(tx.read))
    /\ BreaksAre(tx.code, detectEol(tx.read))

\* C15 does not hold: the file read had CRLF line endings throughout, the
\* rule upgraded the empty catch and the file written holds a bare line feed.
C15_BareLineFeed ==
  /\ tx.step = 1
  /\ tx.r.ret
  /\ detectEol(tx.read) = <<CR, LF>>
  /\ BreaksAre(tx.read, <<CR, LF>>)
  /\ EmptyCatchMatch(tx.read).start >= 0
  /\ ~BreaksAre(tx.code, <<CR, LF>>)

\* ============================================ properties of the types rule
\* The offsets in code of the members of that name (a member is one token).
MemberAt(code, name) == {i \in 1..Len(code) : MemberName(code[i]) = name}

\* The number of spaces that stand directly before index i.
SpacesBefore(code, i) ==
  Cardinality({j \in 1..(i - 1) : \A k \in j..(i - 1) : code[k] = SP})

\* code with `container?: string;` on a line of its own after index i,
\* indented as the member at i.
WithContainerAfter(code, i) ==
  SubSeq(code, 1, i) \o detectEol(code) \o Repeat(SP, SpacesBefore(code, i))
    \o <<"container?:string;">> \o SubSeq(code, i + 1, Len(code))

LineStarts(text, index, eol) ==
  {k + Len(eol) : k \in {j \in 0..(index - Len(eol)) : Slice(text, j, j + Len(eol)) = eol}}

CanonicalOrder ==
  <<"container.cur", "injectInfo.cur", "injectGmi.cur", "injectOut.cur",
    "early.cur", "ret.injectOut">>

\* C18: after patchPreinject completes from any start state in which each
\* fragment is absent, stale or current and the present ones stand in
\* canonical order, the statements of GetInjected's body that the rule
\* manages stand in the order container, injectInfo, injectGmi, injectOut,
\* the early-return guard, the patched return statement, so that none stands
\* before the declaration of a name it reads.
C18_DeclarationBeforeUse ==
  fg.step >= 1 =>
    LET Managed(t) == t # "stmt.x"
    IN SelectSeq(CanonToks(AnchorBody(PREINJECT, fg.code)), Managed) = CanonicalOrder

\* C18 does not hold: injectOut was present and reads container, container
\* was absent and has been inserted after it.
C18_UseBeforeDeclaration ==
  /\ fg.step = 1
  /\ fg.r.ret
  /\ fg.st["container"] = "absent"
  /\ fg.st["injectOut"] = "current"
  /\ LET body == AnchorBody(PREINJECT, fg.code)
     IN /\ "container" \in Lex(body[FragmentIdx(body, "injectOut")].tok).idents
        /\ FragmentIdx(body, "injectOut") < FragmentIdx(body, "container")

\* =================================================== properties of a write
\* C19: whenever a rule writes its file, the ranges of its edits lie in the
\* text it read and do not overlap, and the written content is that text with
\* each range replaced by its replacement and everything outside the ranges
\* kept, in order; no other file is touched: a file no rule has read yet is
\* as it was at the start, and a file read earlier is as its own rule left it.
C19_Frame ==
  \A f \in FileNames :
    (JustRan(f) /\ last.writes # <<>>) =>
      /\ \A i \in 1..Len(last.edits) :
           /\ 0 <= last.edits[i].start
           /\ last.edits[i].start <= last.edits[i].end
           /\ last.edits[i].end <= Len(before[f])
      /\ PairwiseDisjoint(last.edits)
      /\ files[f] \in OnePassResults(before[f], last.edits)
      /\ \A g \in FileNames \ {f} :
           \/ files[g] = before[g]
           \/ /\ \E i \in 1..(Len(reads) - 1) : reads[i] = g
              /\ \E i \in 1..(Len(writes) - 1) :
                   writes[i] = [file |-> g, content |-> files[g]]
      /\ writes[Len(writes)].file = f

\* patchPreinject wrote its file from three edits: a stale fragment replaced,
\* the missing ones inserted, the return statement replaced; the files of the
\* rules that have not run are untouched.
C19_Witness ==
  /\ JustRan(PREINJECT)
  /\ last.ret
  /\ Len(last.edits) = 3
  /\ last.edits[1].end > last.edits[1].start
  /\ last.edits[2].end = last.edits[2].start
  /\ files[PREINJECT] \in OnePassResults(before[PREINJECT], last.edits)
  /\ files[PREINJECT] # before[PREINJECT]
  /\ \A g \in FileNames \ {PREINJECT} : files[g] = before[g]
====
